---- MODULE Spec2Model ----
(***************************************************************************)
(* EvoFlow: the WhatsApp webhook pipeline of backend/routes/               *)
(* evolution-webhook.js (debounce buffer, per-turn orchestrator,           *)
(* completion client) and the retrieval service of backend/services/rag.js *)
(* (chunking, embeddings table, similarity search).                        *)
(*                                                                         *)
(* Texts are sequences of tokens.  The tokens "[", "]" and the four marker *)
(* bodies "A", "D", "H", "P" spell the control markers: <<"[","A","]">> is *)
(* '[SET_PERMISSION:ALLOWED]', "D" is SET_PERMISSION:DENIED, "H" is        *)
(* HUMAN_HANDOVER and "P" is SEND_MENU_PDF.  " " and "\n" are whitespace,  *)
(* every other token is a word.                                            *)
(***************************************************************************)
EXTENDS Integers, Sequences, FiniteSets, TLC

VARIABLES
  \* ---- one call of generateBotResponse (completion client) ----
  cpc,          \* position in generateBotResponse
  attempt,      \* the retry loop's counter
  response,     \* the loop's `response` variable: "none", "ok" or "bad"
  outcomes,     \* history: what the provider did on each request issued
  sleeps,       \* number of sleep(RETRY_DELAY_MS) calls made
  cCfg,         \* storeConfig argument
  cUserMsg,     \* userMessage argument
  cBody,        \* the 2xx response body read, or NoBody
  cResult,      \* the returned object, or NoResult
  knowledgeContext, \* what lines 238-266 put into the prompt: chunks or documents
  ragUsed,      \* the local of line 236
  \* ---- the webhook, the debounce buffer and the turns of one (tenant, phone) key ----
  sinceArrival,   \* clock ticks since the latest delivery arrived (up to a window)
  inBurst,        \* history: every delivery so far arrived less than a window after the one before
  evolutionConfig,\* whether an evolution_configs row exists
  storeConfig,    \* the store_configs row of the tenant, or NoStoreConfig
  contacts,       \* rows of table contacts for the key: id -> row
  conversations,  \* rows of table conversations for the key: id -> row
  messages,       \* rows of table messages, in insertion order
  deliveries,     \* the webhook requests: delivery -> handler state
  messageBuffers, \* the Map's entry for the key, or NoBuffer
  timers,         \* pending setTimeout callbacks: timeoutId and ticks left
  turns,          \* the processBufferedMessages runs that found a buffer
  \* ---- the retrieval service: tables and processDocumentEmbeddings runs ----
  store_configs,       \* rows of table store_configs
  knowledge_documents, \* rows of table knowledge_documents
  document_embeddings, \* rows of table document_embeddings; `run` is the run that
                       \* inserted the row (every row has its own randomUUID id)
  requests,            \* number of calls of the knowledge base routes so far
  jobs,                \* the callers of processDocumentEmbeddings and their runs
  searchResult,        \* what the latest searchSimilarChunks call returned
  chunking             \* the chunkText call in progress: its arguments and locals

clientVars ==
  <<cpc, attempt, response, outcomes, sleeps, cCfg, cUserMsg, cBody, cResult,
    knowledgeContext, ragUsed>>

dbVars == <<evolutionConfig, storeConfig, contacts, conversations, messages>>

webVars == <<sinceArrival, inBurst, dbVars, deliveries, messageBuffers, timers, turns>>

ragVars ==
  <<store_configs, knowledge_documents, document_embeddings, requests, jobs, searchResult,
    chunking>>

vars == <<clientVars, webVars, ragVars>>

(***************************************************************************)
(* Bounds of the model.                                                    *)
(***************************************************************************)
MaxPieces == 2
NDeliveries == 2
\* clock ticks in one debounce window of MESSAGE_DEBOUNCE_MS
DebounceTicks == 2
NTenants == 2
NDocs == 1
MaxRequests == 3
MaxContent == 5
\* CHUNK_SIZE and CHUNK_OVERLAP (800 and 150 characters) at the scale of the
\* contents of the model
ChunkSize == 3
ChunkOverlap == 1

(***************************************************************************)
(* Program constants.                                                      *)
(***************************************************************************)
MAX_RETRIES == 3
RETRY_DELAY_MS == 2000
MAX_TOKENS_PER_CONVERSATION == 30000
MESSAGE_DEBOUNCE_MS == 5000

(***************************************************************************)
(* String operations used by the code: includes, replace(/../g, ''), trim, *)
(* toLowerCase, join.                                                      *)
(***************************************************************************)
OccursAt(s, m, i) ==
  /\ i + Len(m) - 1 <= Len(s)
  /\ \A k \in 1..Len(m) : s[i + k - 1] = m[k]

Includes(s, m) == \E i \in 1..Len(s) : OccursAt(s, m, i)

RECURSIVE RemoveFrom(_, _, _)
RemoveFrom(s, m, i) ==
  IF i > Len(s) THEN <<>>
  ELSE IF OccursAt(s, m, i) THEN RemoveFrom(s, m, i + Len(m))
  ELSE <<s[i]>> \o RemoveFrom(s, m, i + 1)

\* text.replace(/marker/g, ''): one left-to-right pass, no rescan of the result
ReplaceAll(s, m) == RemoveFrom(s, m, 1)

IsSpace(c) == c \in {" ", "\n"}

RECURSIVE TrimStart(_)
TrimStart(s) ==
  IF s # <<>> /\ IsSpace(Head(s)) THEN TrimStart(Tail(s)) ELSE s

RECURSIVE TrimEnd(_)
TrimEnd(s) ==
  IF s # <<>> /\ IsSpace(s[Len(s)]) THEN TrimEnd(SubSeq(s, 1, Len(s) - 1)) ELSE s

Trim(s) == TrimEnd(TrimStart(s))

LowerToken(c) ==
  CASE c = "MENU" -> "menu"
    [] c = "CARDAPIO_EM_PDF" -> "cardapio_em_pdf"
    [] OTHER -> c

ToLowerCase(s) == [i \in 1..Len(s) |-> LowerToken(s[i])]

RECURSIVE Join(_, _)
Join(list, sep) ==
  IF list = <<>> THEN <<>>
  ELSE IF Len(list) = 1 THEN list[1]
  ELSE list[1] \o sep \o Join(Tail(list), sep)

(***************************************************************************)
(* generateBotResponse: the result objects.                                *)
(***************************************************************************)
TAG_ALLOWED == <<"[", "A", "]">>
TAG_DENIED == <<"[", "D", "]">>
TAG_HANDOVER == <<"[", "H", "]">>
TAG_SEND_MENU_PDF == <<"[", "P", "]">>

DefaultFallbackText == <<"dificuldades_tecnicas">>

\* storeConfig.fallbackMessage || '<built-in text>': '' and null are falsy
FallbackText(cfg) ==
  IF cfg.fallbackMessage # <<>> THEN cfg.fallbackMessage ELSE DefaultFallbackText

\* the object returned at lines 503-508, 524-529, 538-543, 561-566, 624-629;
\* it has no sendMenuPdf property
FallbackResult(cfg) ==
  [ text |-> FallbackText(cfg),
    permissionUpdate |-> "null",
    handover |-> TRUE,
    sendMenuPdf |-> "undefined",
    tokensUsed |-> 0 ]

\* the four `if (text.includes(tag)) { field = ..; text = text.replace(..).trim() }`
StripTag(text, tag) == IF Includes(text, tag) THEN Trim(ReplaceAll(text, tag)) ELSE text

ExtractTags(rawText) ==
  LET t1 == StripTag(rawText, TAG_ALLOWED)
      p1 == IF Includes(rawText, TAG_ALLOWED) THEN "allowed" ELSE "null"
      t2 == StripTag(t1, TAG_DENIED)
      p2 == IF Includes(t1, TAG_DENIED) THEN "denied" ELSE p1
      t3 == StripTag(t2, TAG_HANDOVER)
      t4 == StripTag(t3, TAG_SEND_MENU_PDF)
  IN [ text |-> t4,
       permissionUpdate |-> p2,
       handover |-> Includes(t2, TAG_HANDOVER),
       sendMenuPdf |-> Includes(t3, TAG_SEND_MENU_PDF) ]

\* the heuristic of lines 600-619
MenuPdfFallback(cfg, userMessage, text) ==
  /\ cfg.menuPdfUrl # <<>>
  /\ \/ Includes(ToLowerCase(userMessage), <<"menu">>)
     \/ Includes(ToLowerCase(userMessage), <<"cardapio">>)
  /\ Includes(ToLowerCase(text), <<"cardapio_em_pdf">>)

SuccessResult(cfg, userMessage, rawText, tokens) ==
  LET e == ExtractTags(rawText)
      pdf == e.sendMenuPdf \/ MenuPdfFallback(cfg, userMessage, e.text)
  IN [ text |-> e.text,
       permissionUpdate |-> e.permissionUpdate,
       handover |-> e.handover,
       sendMenuPdf |-> IF pdf THEN "true" ELSE "false",
       tokensUsed |-> tokens ]

(***************************************************************************)
(* The body of a 2xx response.  kind: "throws" (response.text() rejects),  *)
(* "text" (raw is the body text, not JSON: '' or blank or garbage),        *)
(* "json" (parsed; content is choices[0].message.content: a text,          *)
(* or absent, or not a string; tokens is usage.total_tokens or absent=0).  *)
(***************************************************************************)
NoStoreConfig == [exists |-> FALSE, fallbackMessage |-> <<>>, menuPdfUrl |-> <<>>]
NoBody == [kind |-> "none", content |-> "absent", raw |-> <<>>, tokens |-> 0]
NoResult == [text |-> <<"no_result">>]
\* `let knowledgeContext = ''`, line 235
NoContext == [chunks |-> {}, documents |-> <<>>]

\* the parsing without the test of line 557 (`!rawText || rawText.trim() === ''`)
ParseResponseNoEmptyCheck(cfg, userMessage, body) ==
  IF body.kind # "json" \/ body.content # "string" THEN FallbackResult(cfg)
  ELSE SuccessResult(cfg, userMessage, body.raw, body.tokens)

\* lines 511-630, from `await response.text()` to the return: every early
\* return and the catch give the fallback object
ParseResponse(cfg, userMessage, body) ==
  IF body.kind = "throws" THEN FallbackResult(cfg)            \* catch, line 622
  ELSE IF body.kind = "text" THEN FallbackResult(cfg)         \* lines 522, 535
  ELSE IF body.content = "absent" THEN FallbackResult(cfg)    \* `|| ''`, line 558
  ELSE IF body.content = "notString" THEN FallbackResult(cfg) \* trim throws, 622
  ELSE IF Trim(body.raw) = <<>> THEN FallbackResult(cfg)      \* line 558
  ELSE SuccessResult(cfg, userMessage, body.raw, body.tokens)

\* `if (!response || !response.ok)` after the loop
AllAttemptsFailed(resp) == resp # "ok"

(***************************************************************************)
(* Inputs of the completion client.                                        *)
(***************************************************************************)
\* the last two pieces are a marker written inside another one
\* ('[SET_PERMISSION[HUMAN_HANDOVER]:ALLOWED]',
\* '[HUMAN[SET_PERMISSION:ALLOWED]_HANDOVER]')
Pieces ==
  { TAG_ALLOWED, TAG_DENIED, TAG_HANDOVER, TAG_SEND_MENU_PDF,
    <<"x">>, <<" ">>, <<"CARDAPIO_EM_PDF">>,
    <<"[", "[", "H", "]", "A", "]">>,
    <<"[", "[", "A", "]", "H", "]">> }

RECURSIVE PieceTexts(_)
PieceTexts(n) ==
  IF n = 0 THEN {<<>>}
  ELSE LET shorter == PieceTexts(n - 1)
       IN shorter \cup {t \o p : t \in shorter, p \in Pieces}

Replies == PieceTexts(MaxPieces)

TokenCounts == {0, 1000}

Bodies ==
  { [kind |-> "throws", content |-> "absent", raw |-> <<>>, tokens |-> 0],
    [kind |-> "text", content |-> "absent", raw |-> <<>>, tokens |-> 0],
    [kind |-> "text", content |-> "absent", raw |-> <<" ">>, tokens |-> 0],
    [kind |-> "text", content |-> "absent", raw |-> <<"<html>">>, tokens |-> 0],
    [kind |-> "json", content |-> "absent", raw |-> <<>>, tokens |-> 1000],
    [kind |-> "json", content |-> "notString", raw |-> <<>>, tokens |-> 1000] }
  \cup [kind : {"json"}, content : {"string"}, raw : Replies, tokens : TokenCounts]

FallbackMessages == {<<>>, <<" ">>, <<"fb">>}
MenuPdfUrls == {<<>>, <<"/uploads/menu.pdf">>}
ClientConfigs == [fallbackMessage : FallbackMessages, menuPdfUrl : MenuPdfUrls]
UserMessages == {<<"oi">>, <<"MENU">>}

(***************************************************************************)
(* generateBotResponse, lines 453-631, one step per await.                 *)
(***************************************************************************)
InitClient ==
  /\ cpc = "fetch"
  /\ attempt = 1
  /\ response = "none"
  /\ outcomes = <<>>
  /\ sleeps = 0
  /\ cCfg \in ClientConfigs
  /\ cUserMsg \in UserMessages
  /\ cBody = NoBody
  /\ cResult = NoResult
  /\ knowledgeContext = NoContext
  /\ ragUsed = FALSE

ClientIdle ==
  /\ cpc = "idle"
  /\ attempt = 1
  /\ response = "none"
  /\ outcomes = <<>>
  /\ sleeps = 0
  /\ cCfg = NoStoreConfig
  /\ cUserMsg = <<>>
  /\ cBody = NoBody
  /\ cResult = NoResult
  /\ knowledgeContext = NoContext
  /\ ragUsed = FALSE

\* ClientFetch without the `if (attempt < MAX_RETRIES)` of lines 485 and 494:
\* the loop sleeps after every failed attempt, the last one too
ClientFetchAlwaysSleeps ==
  /\ cpc = "fetch"
  /\ attempt <= MAX_RETRIES
  /\ \E o \in {"ok", "bad", "throw"} :
       LET resp == IF o = "throw" THEN response ELSE o
       IN /\ outcomes' = Append(outcomes, o)
          /\ response' = resp
          /\ cpc' = IF o = "ok" THEN "body" ELSE "sleep"
          /\ UNCHANGED <<attempt, cResult>>
  /\ UNCHANGED <<sleeps, cCfg, cUserMsg, cBody, knowledgeContext, ragUsed, webVars, ragVars>>

\* one `await fetch(...)` of the loop: a 2xx response ("ok"), a non-2xx
\* response ("bad", whose error body is read at line 478) or a rejection
\* ("throw"); a failure on the last attempt leaves the loop
ClientFetch ==
  /\ cpc = "fetch"
  /\ attempt <= MAX_RETRIES
  /\ \E o \in {"ok", "bad", "throw"} :
       LET resp == IF o = "throw" THEN response ELSE o
       IN /\ outcomes' = Append(outcomes, o)
          /\ response' = resp
          /\ IF o = "ok" THEN
               /\ cpc' = "body"
               /\ UNCHANGED <<attempt, cResult>>
             ELSE IF attempt < MAX_RETRIES THEN
               /\ cpc' = "sleep"
               /\ UNCHANGED <<attempt, cResult>>
             ELSE
               /\ attempt' = attempt + 1
               /\ IF AllAttemptsFailed(resp)
                    THEN cpc' = "done" /\ cResult' = FallbackResult(cCfg)
                    ELSE cpc' = "body" /\ UNCHANGED cResult
  /\ UNCHANGED <<sleeps, cCfg, cUserMsg, cBody, knowledgeContext, ragUsed, webVars, ragVars>>

\* `await sleep(RETRY_DELAY_MS)`, then the loop's attempt++
ClientSleep ==
  /\ cpc = "sleep"
  /\ sleeps' = sleeps + 1
  /\ attempt' = attempt + 1
  /\ cpc' = "fetch"
  /\ UNCHANGED <<response, outcomes, cCfg, cUserMsg, cBody, cResult, knowledgeContext, ragUsed,
                 webVars, ragVars>>

\* `await response.text()` and everything after it
ClientReadBody ==
  /\ cpc = "body"
  /\ \E b \in Bodies :
       /\ cBody' = b
       /\ cResult' = ParseResponse(cCfg, cUserMsg, b)
  /\ cpc' = "done"
  /\ UNCHANGED <<attempt, response, outcomes, sleeps, cCfg, cUserMsg, knowledgeContext, ragUsed,
                 webVars, ragVars>>

NextClient == ClientFetch \/ ClientSleep \/ ClientReadBody

(***************************************************************************)
(* The retrieval service, backend/services/rag.js, and the routes that     *)
(* call processDocumentEmbeddings.  A content is a sequence of characters. *)
(***************************************************************************)
Tenants == 1..NTenants
DocIds == 1..NDocs

\* no call of chunkText in progress
NoChunking ==
  [ pc |-> "idle", text |-> <<>>, chunkSize |-> 0, overlap |-> 0, start |-> 0,
    chunks |-> <<>>, iterations |-> 0 ]
NoSearch == [userId |-> 0, limit |-> 0, rows |-> {}, threw |-> FALSE]

RagIdle ==
  /\ store_configs = {}
  /\ knowledge_documents = {}
  /\ document_embeddings = {}
  /\ requests = 0
  /\ jobs = <<>>
  /\ searchResult = NoSearch
  /\ chunking = NoChunking

Min(a, b) == IF a < b THEN a ELSE b

\* the while loop of chunkText, lines 28-44, from window start `start`
RECURSIVE ChunkLoop(_, _, _, _)
ChunkLoop(text, start, chunkSize, overlap) ==
  LET end == Min(start + chunkSize, Len(text))
      chunk == Trim(SubSeq(text, start + 1, end))
      pushed == IF Len(chunk) > 0 THEN <<chunk>> ELSE <<>>
  IN IF start >= Len(text) THEN <<>>
     ELSE IF end >= Len(text) THEN pushed
     ELSE pushed \o ChunkLoop(text, start + chunkSize - overlap, chunkSize, overlap)

\* chunkText(text, chunkSize, overlap), lines 21-48
chunkText(text, chunkSize, overlap) ==
  IF Len(Trim(text)) = 0 THEN <<>>
  ELSE ChunkLoop(text, 0, chunkSize, overlap)

Text(n) == [i \in 1..n |-> "a"]
Contents == {<<" ">>, Text(ChunkSize), Text(MaxContent)}

\* the request body's knowledgeBase: documents with distinct ids
KnowledgeBases ==
  UNION { [ids -> [content : Contents, active : BOOLEAN]] : ids \in SUBSET DocIds }

\* the documents of `ids` in ascending order of id, as {id, content} objects
RECURSIVE DocQueue(_, _)
DocQueue(ids, contentOf) ==
  IF ids = {} THEN <<>>
  ELSE LET first == CHOOSE d \in ids : \A e \in ids : d <= e
       IN <<[id |-> first, content |-> contentOf[first]]>>
            \o DocQueue(ids \ {first}, contentOf)

\* a caller about to call processDocumentEmbeddings for the head of `queue`
NewJob(queue) ==
  [ queue |-> queue, pc |-> "delete", chunks |-> 0, i |-> 0, processedCount |-> 0,
    results |-> <<>> ]

\* rows a deployment can hold when the server starts: the schema of lines
\* 291-311 and 399-407 allows any number of store_configs rows
SeededStores == {[id |-> "default", user_id |-> 1], [id |-> "s2", user_id |-> 2]}
SeededDocument ==
  [id |-> 0, store_config_id |-> "s2", content |-> Text(MaxContent), active |-> TRUE]
SeededEmbeddings ==
  { [document_id |-> 0, chunk_index |-> c, run |-> <<0, 0>>] :
      c \in 0..(Len(chunkText(Text(MaxContent), ChunkSize, ChunkOverlap)) - 1) }

InitRag ==
  /\ \/ /\ store_configs = {}
        /\ knowledge_documents = {}
        /\ document_embeddings = {}
     \/ /\ store_configs = SeededStores
        /\ knowledge_documents = {SeededDocument}
        /\ document_embeddings = SeededEmbeddings
  /\ requests = 0
  /\ jobs = <<>>
  /\ searchResult = NoSearch
  /\ chunking = NoChunking

\* router.put('/store-config'): the upsert of id 'default' keeps user_id on a
\* conflict; DELETE knowledge_documents cascades to document_embeddings;
\* every active document with content starts a run that is not awaited
PutStoreConfig(userId, kb) ==
  LET storeConfigId == "default"
      started == { d \in DOMAIN kb : kb[d].active /\ Len(Trim(kb[d].content)) > 0 }
      kept == { kd \in knowledge_documents : kd.store_config_id # storeConfigId }
      newJobs == [k \in 1..Cardinality(started) |->
                    NewJob(<<DocQueue(started, [d \in started |-> kb[d].content])[k]>>)]
  IN /\ requests < MaxRequests
     /\ requests' = requests + 1
     /\ store_configs' =
          IF \E sc \in store_configs : sc.id = storeConfigId THEN store_configs
          ELSE store_configs \cup {[id |-> storeConfigId, user_id |-> userId]}
     /\ knowledge_documents' = kept \cup
          { [id |-> d, store_config_id |-> storeConfigId, content |-> kb[d].content,
             active |-> kb[d].active] : d \in DOMAIN kb }
     /\ document_embeddings' =
          { de \in document_embeddings : \E kd \in kept : kd.id = de.document_id }
     /\ jobs' = jobs \o newJobs
     /\ UNCHANGED <<clientVars, webVars, searchResult, chunking>>

\* router.post('/store-config/knowledge/regenerate-embeddings'): the active
\* documents of the caller's store configuration, processed one after another
RegenerateEmbeddings(userId) ==
  /\ requests < MaxRequests
  /\ requests' = requests + 1
  /\ \E sc \in store_configs :
       /\ sc.user_id = userId
       /\ LET docs == { kd \in knowledge_documents :
                          kd.store_config_id = sc.id /\ kd.active }
              ids == { kd.id : kd \in docs }
              contentOf == [d \in ids |->
                              (CHOOSE kd \in docs : kd.id = d).content]
          IN /\ docs # {}
             /\ jobs' = Append(jobs, NewJob(DocQueue(ids, contentOf)))
  /\ UNCHANGED <<clientVars, webVars, store_configs, knowledge_documents,
                 document_embeddings, searchResult, chunking>>

\* a request starts at most one run per document at a time
JobIds == 1..(MaxRequests * NDocs)

IsJob(j) == j <= Len(jobs)

\* processDocumentEmbeddings returns `count` to its caller: the .then of the
\* PUT route logs it, the regenerate route pushes it to results and goes on
\* with the next document
Returned(job, count) ==
  [job EXCEPT
     !.results = Append(@, [documentId |-> Head(job.queue).id,
                            content |-> Head(job.queue).content, chunks |-> count]),
     !.queue = Tail(@),
     !.pc = IF Len(job.queue) > 1 THEN "delete" ELSE "done",
     !.chunks = 0, !.i = 0, !.processedCount = 0]

\* processDocumentEmbeddings lines 110-125: DELETE the document's rows, chunkText
DeleteOldEmbeddings(j) ==
  /\ IsJob(j)
  /\ jobs[j].pc = "delete"
  /\ LET doc == Head(jobs[j].queue)
         chunks == chunkText(doc.content, ChunkSize, ChunkOverlap)
     IN /\ document_embeddings' =
             { de \in document_embeddings : de.document_id # doc.id }
        /\ jobs' = [jobs EXCEPT ![j] =
             IF Len(chunks) = 0 THEN Returned(@, 0)
             ELSE [@ EXCEPT !.pc = "chunk", !.chunks = Len(chunks), !.i = 0,
                            !.processedCount = 0]]
  /\ UNCHANGED <<clientVars, webVars, store_configs, knowledge_documents, requests,
                 searchResult, chunking>>

\* the loop's i++ and, after the last chunk, the return of processedCount
NextChunk(job, processedCount) ==
  IF job.i + 1 < job.chunks
    THEN [job EXCEPT !.i = @ + 1, !.processedCount = processedCount]
    ELSE Returned(job, processedCount)

\* lines 131-146: generateEmbedding resolves and the INSERT succeeds (the
\* document row exists: document_id is a foreign key)
InsertChunk(j) ==
  /\ IsJob(j)
  /\ jobs[j].pc = "chunk"
  /\ LET job == jobs[j]
         doc == Head(job.queue)
     IN /\ \E kd \in knowledge_documents : kd.id = doc.id
        /\ document_embeddings' = document_embeddings \cup
             {[ document_id |-> doc.id, chunk_index |-> job.i,
                run |-> <<j, Len(job.results)>> ]}
        /\ jobs' = [jobs EXCEPT ![j] = NextChunk(job, job.processedCount + 1)]
  /\ UNCHANGED <<clientVars, webVars, store_configs, knowledge_documents, requests,
                 searchResult, chunking>>

\* lines 148-151: generateEmbedding or the INSERT throws, the catch logs and
\* the loop continues with the next chunk
ChunkFails(j) ==
  /\ IsJob(j)
  /\ jobs[j].pc = "chunk"
  /\ jobs' = [jobs EXCEPT ![j] = NextChunk(jobs[j], jobs[j].processedCount)]
  /\ UNCHANGED <<clientVars, webVars, store_configs, knowledge_documents,
                 document_embeddings, requests, searchResult, chunking>>

\* the SELECT without `sc.user_id = $2`
SimilarChunksAnyStore(userId) ==
  { de \in document_embeddings :
      \E kd \in knowledge_documents : kd.id = de.document_id /\ kd.active }

\* the SELECT of searchSimilarChunks, lines 177-190, without ORDER BY and LIMIT
SimilarChunks(userId) ==
  { de \in document_embeddings :
      \E kd \in knowledge_documents, sc \in store_configs :
        /\ kd.id = de.document_id
        /\ sc.id = kd.store_config_id
        /\ sc.user_id = userId
        /\ kd.active }

\* searchSimilarChunks(query, userId, limit): the `limit` nearest of the
\* matching rows (any of them can be nearest to some query), or the error of
\* generateEmbedding or of the query is thrown
SearchOutcomes(userId, limit) ==
  { [userId |-> userId, limit |-> limit, rows |-> {}, threw |-> TRUE] }
  \cup { [userId |-> userId, limit |-> limit, rows |-> rows, threw |-> FALSE] :
           rows \in { r \in SUBSET SimilarChunks(userId) :
                        Cardinality(r) = Min(limit, Cardinality(SimilarChunks(userId))) } }

SearchSimilarChunks(userId, limit) ==
  /\ searchResult' \in SearchOutcomes(userId, limit)
  /\ UNCHANGED <<clientVars, webVars, store_configs, knowledge_documents,
                 document_embeddings, requests, jobs, chunking>>

NextRag ==
  \/ \E u \in Tenants, kb \in KnowledgeBases : PutStoreConfig(u, kb)
  \/ \E u \in Tenants : RegenerateEmbeddings(u)
  \/ \E j \in JobIds :
       \/ DeleteOldEmbeddings(j)
       \/ InsertChunk(j)
       \/ ChunkFails(j)

(***************************************************************************)
(* The webhook and the orchestrator: tables, buffer, timers.  The model    *)
(* follows one bufferKey `${userId}:${phoneNumber}`; deliveries arrive in  *)
(* the order of their numbers.                                             *)
(***************************************************************************)
Deliveries == 1..NDeliveries

NoBuffer == [exists |-> FALSE]
NoContact == [id |-> 0, permission |-> "none"]
NoConversation == [id |-> 0, status |-> "none", total_tokens |-> 0]
NoBotResponse ==
  [ text |-> <<>>, permissionUpdate |-> "null", handover |-> FALSE,
    sendMenuPdf |-> "undefined", tokensUsed |-> 0 ]

IdleDelivery ==
  [ pc |-> "idle", text |-> <<>>, serverBaseUrl |-> <<>>,
    contact |-> NoContact, conversation |-> NoConversation,
    status |-> 0, reply |-> "none" ]

\* the canned object of lines 162-167
TokenLimitResponse ==
  [ text |-> <<"conversa_longa">>, permissionUpdate |-> "null", handover |-> TRUE,
    sendMenuPdf |-> "undefined", tokensUsed |-> 0 ]

\* what generateBotResponse can return for these arguments (see ClientFetch,
\* ClientReadBody): the fallback object or a parsed reply
ClientResults(cfg, userMessage, replies, tokenCounts) ==
  {FallbackResult(cfg)} \cup
  { ParseResponse(cfg, userMessage,
                  [kind |-> "json", content |-> "string", raw |-> r, tokens |-> n]) :
      r \in replies, n \in tokenCounts }

\* `!/^https?:\/\//i.test(url)`
IsAbsoluteUrl(url) == url # <<>> /\ url[1] \in {"http://", "https://", "HTTP://"}

\* lines 205-211
ResolvePdfUrl(url, serverBaseUrl) ==
  IF ~IsAbsoluteUrl(url) /\ serverBaseUrl # <<>> THEN serverBaseUrl \o url ELSE url

WebIdle ==
  /\ sinceArrival = 0
  /\ inBurst = TRUE
  /\ evolutionConfig = FALSE
  /\ storeConfig = NoStoreConfig
  /\ contacts = {}
  /\ conversations = {}
  /\ messages = {}
  /\ deliveries = [d \in Deliveries |-> IdleDelivery]
  /\ messageBuffers = NoBuffer
  /\ timers = {}
  /\ turns = <<>>

\* the rows a deployment can hold for the key when the server starts
ExistingContact == [id |-> 10, permission |-> "allowed"]
ExistingConversation(st, tok) == [id |-> 20, status |-> st, total_tokens |-> tok]

InitDb(evolutions, stores, convStates) ==
  /\ evolutionConfig \in evolutions
  /\ storeConfig \in stores
  /\ messages = {}
  /\ \E c \in convStates :
       IF c = <<>> THEN contacts = {} /\ conversations = {}
       ELSE /\ contacts = {ExistingContact}
            /\ conversations = {ExistingConversation(c[1], c[2])}

InitWebhook(evolutions, stores, convStates) ==
  /\ sinceArrival = 0
  /\ inBurst = TRUE
  /\ InitDb(evolutions, stores, convStates)
  /\ deliveries = [d \in Deliveries |-> IdleDelivery]
  /\ messageBuffers = NoBuffer
  /\ timers = {}
  /\ turns = <<>>

\* the clock ticks (MESSAGE_DEBOUNCE_MS / DebounceTicks ms pass): every pending
\* timer comes one tick closer; a timer with no tick left is due
Tick ==
  /\ sinceArrival < DebounceTicks \/ \E t \in timers : t.left > 0
  /\ sinceArrival' = IF sinceArrival < DebounceTicks THEN sinceArrival + 1 ELSE sinceArrival
  /\ timers' = {[t EXCEPT !.left = IF @ > 0 THEN @ - 1 ELSE 0] : t \in timers}
  /\ UNCHANGED <<clientVars, ragVars, inBurst, dbVars, deliveries, messageBuffers, turns>>

(***************************************************************************)
(* router.post('/evolution/messages-upsert'), lines 715-928, one action    *)
(* per await that reads or writes a table of the model.                    *)
(***************************************************************************)
\* res.status(..).json(..): the handler returns and its locals are gone
Respond(d, status, reply) ==
  [deliveries EXCEPT ![d].pc = "done", ![d].status = status, ![d].reply = reply,
                     ![d].contact = NoContact, ![d].conversation = NoConversation]

\* the request arrives; lines 717-791: fromMe, invalid remoteJid and empty text
\* are answered at once, then the evolution_configs lookup
Receive(d, payloads, texts, baseUrls) ==
  /\ deliveries[d].pc = "idle"
  /\ \A e \in Deliveries : e < d => deliveries[e].pc # "idle"
  /\ \E kind \in payloads, txt \in texts[d], base \in baseUrls :
       LET got == [deliveries EXCEPT ![d].text = txt, ![d].serverBaseUrl = base]
       IN IF kind # "text" THEN
            deliveries' = [got EXCEPT ![d].pc = "done", ![d].status = 200,
                                      ![d].reply = "ignored"]
          ELSE IF ~evolutionConfig THEN
            deliveries' = [got EXCEPT ![d].pc = "done", ![d].status = 200,
                                      ![d].reply = "ignored"]
          ELSE deliveries' = [got EXCEPT ![d].pc = "contact"]
  /\ sinceArrival' = 0
  /\ inBurst' = (inBurst /\ (d = 1 \/ sinceArrival < DebounceTicks))
  /\ UNCHANGED <<clientVars, ragVars, dbVars, messageBuffers, timers, turns>>

\* lines 795-801: SELECT ... FROM contacts WHERE user_id, phone_number LIMIT 1
SelectContact(d) ==
  /\ deliveries[d].pc = "contact"
  /\ IF contacts = {} THEN
       deliveries' = [deliveries EXCEPT ![d].pc = "insertContact"]
     ELSE \E row \in contacts :
       deliveries' = [deliveries EXCEPT ![d].pc = "conversation",
                                        ![d].contact = row]
  /\ UNCHANGED <<clientVars, ragVars, sinceArrival, inBurst, dbVars, messageBuffers, timers, turns>>

\* lines 803-813: INSERT INTO contacts, id = crypto.randomUUID()
InsertContact(d) ==
  /\ deliveries[d].pc = "insertContact"
  /\ contacts' = contacts \cup {[id |-> d, permission |-> "denied"]}
  /\ deliveries' = [deliveries EXCEPT ![d].pc = "conversation",
                                      ![d].contact = [id |-> d, permission |-> "denied"]]
  /\ UNCHANGED <<clientVars, ragVars, sinceArrival, inBurst, evolutionConfig, storeConfig, conversations,
                 messages, messageBuffers, timers, turns>>

\* lines 817-829: SELECT id, status, total_tokens FROM conversations ... LIMIT 1
\* (and the UPDATE of last_message_at, which the model does not hold)
SelectConversation(d) ==
  /\ deliveries[d].pc = "conversation"
  /\ IF conversations = {} THEN
       deliveries' = [deliveries EXCEPT ![d].pc = "insertConversation"]
     ELSE \E row \in conversations :
       deliveries' = [deliveries EXCEPT ![d].pc = "store",
                                        ![d].conversation = row]
  /\ UNCHANGED <<clientVars, ragVars, sinceArrival, inBurst, dbVars, messageBuffers, timers, turns>>

\* lines 831-838: INSERT INTO conversations (status 'active', total_tokens 0)
InsertConversation(d) ==
  /\ deliveries[d].pc = "insertConversation"
  /\ LET row == [id |-> d, status |-> "active", total_tokens |-> 0]
     IN /\ conversations' = conversations \cup {row}
        /\ deliveries' = [deliveries EXCEPT ![d].pc = "store", ![d].conversation = row]
  /\ UNCHANGED <<clientVars, ragVars, sinceArrival, inBurst, evolutionConfig, storeConfig, contacts,
                 messages, messageBuffers, timers, turns>>

\* Ingest with `buffer.messages = [messageText]` for the push of line 883
IngestOverwrites(d) ==
  IF messageBuffers.exists THEN
    /\ messageBuffers' =
         [messageBuffers EXCEPT !.messages = <<deliveries[d].text>>,
                                !.fragments = <<d>>,
                                !.timeoutId = d]
    /\ timers' = {t \in timers : t.id # messageBuffers.timeoutId}
                   \cup {[id |-> d, left |-> DebounceTicks]}
  ELSE
    /\ messageBuffers' =
         [ exists |-> TRUE,
           messages |-> <<deliveries[d].text>>,
           fragments |-> <<d>>,
           timeoutId |-> d,
           metadata |-> [ contact |-> deliveries[d].contact,
                          conversation |-> deliveries[d].conversation,
                          storeConfig |-> storeConfig,
                          serverBaseUrl |-> deliveries[d].serverBaseUrl ] ]
    /\ timers' = timers \cup {[id |-> d, left |-> DebounceTicks]}

\* Ingest without the clearTimeout of line 886
IngestKeepsTimer(d) ==
  IF messageBuffers.exists THEN
    /\ messageBuffers' =
         [messageBuffers EXCEPT !.messages = Append(@, deliveries[d].text),
                                !.fragments = Append(@, d),
                                !.timeoutId = d]
    /\ timers' = timers \cup {[id |-> d, left |-> DebounceTicks]}
  ELSE
    /\ messageBuffers' =
         [ exists |-> TRUE,
           messages |-> <<deliveries[d].text>>,
           fragments |-> <<d>>,
           timeoutId |-> d,
           metadata |-> [ contact |-> deliveries[d].contact,
                          conversation |-> deliveries[d].conversation,
                          storeConfig |-> storeConfig,
                          serverBaseUrl |-> deliveries[d].serverBaseUrl ] ]
    /\ timers' = timers \cup {[id |-> d, left |-> DebounceTicks]}

\* Ingest whose new buffer gets its timer without the MESSAGE_DEBOUNCE_MS
\* argument of line 902 (setTimeout(callback) fires at once)
IngestNoDelay(d) ==
  IF messageBuffers.exists THEN
    /\ messageBuffers' =
         [messageBuffers EXCEPT !.messages = Append(@, deliveries[d].text),
                                !.fragments = Append(@, d),
                                !.timeoutId = d]
    /\ timers' = {t \in timers : t.id # messageBuffers.timeoutId}
                   \cup {[id |-> d, left |-> DebounceTicks]}
  ELSE
    /\ messageBuffers' =
         [ exists |-> TRUE,
           messages |-> <<deliveries[d].text>>,
           fragments |-> <<d>>,
           timeoutId |-> d,
           metadata |-> [ contact |-> deliveries[d].contact,
                          conversation |-> deliveries[d].conversation,
                          storeConfig |-> storeConfig,
                          serverBaseUrl |-> deliveries[d].serverBaseUrl ] ]
    /\ timers' = timers \cup {[id |-> d, left |-> 0]}

\* Ingest that also stores the metadata of the later request in the buffer
IngestRefreshesSnapshot(d) ==
  /\ messageBuffers' =
       [ exists |-> TRUE,
         messages |-> IF messageBuffers.exists
                        THEN Append(messageBuffers.messages, deliveries[d].text)
                        ELSE <<deliveries[d].text>>,
         fragments |-> IF messageBuffers.exists
                         THEN Append(messageBuffers.fragments, d) ELSE <<d>>,
         timeoutId |-> d,
         metadata |-> [ contact |-> deliveries[d].contact,
                        conversation |-> deliveries[d].conversation,
                        storeConfig |-> storeConfig,
                        serverBaseUrl |-> deliveries[d].serverBaseUrl ] ]
  /\ timers' = (IF messageBuffers.exists
                  THEN {t \in timers : t.id # messageBuffers.timeoutId} ELSE timers)
                 \cup {[id |-> d, left |-> DebounceTicks]}

\* `buffer.messages.push(messageText)`, line 884.  The model follows the
\* first NDeliveries entries of a buffer: a longer one is reached only when
\* a sender goes on posting while the buffer is open (NextRequest), and its
\* further entries change nothing in the debounce block
Push(list, entry) == IF Len(list) < NDeliveries THEN Append(list, entry) ELSE list

\* lines 878-914: messageBuffers.get, push or new buffer, clearTimeout, setTimeout
Ingest(d) ==
  IF messageBuffers.exists THEN
    /\ messageBuffers' =
         [messageBuffers EXCEPT !.messages = Push(@, deliveries[d].text),
                                !.fragments = Push(@, d),
                                !.timeoutId = d]
    /\ timers' = {t \in timers : t.id # messageBuffers.timeoutId}
                   \cup {[id |-> d, left |-> DebounceTicks]}
  ELSE
    /\ messageBuffers' =
         [ exists |-> TRUE,
           messages |-> <<deliveries[d].text>>,
           fragments |-> <<d>>,
           timeoutId |-> d,
           metadata |-> [ contact |-> deliveries[d].contact,
                          conversation |-> deliveries[d].conversation,
                          storeConfig |-> storeConfig,
                          serverBaseUrl |-> deliveries[d].serverBaseUrl ] ]
    /\ timers' = timers \cup {[id |-> d, left |-> DebounceTicks]}

\* lines 845-923: SELECT store_configs and knowledge_documents, then the
\* debounce block and the 200 response, which run without an await between
Enqueue(d) ==
  /\ deliveries[d].pc = "store"
  /\ IF ~storeConfig.exists THEN
       /\ deliveries' = Respond(d, 200, "ignored")
       /\ UNCHANGED <<messageBuffers, timers>>
     ELSE
       /\ Ingest(d)
       /\ deliveries' = Respond(d, 200, "buffered")
  /\ UNCHANGED <<clientVars, ragVars, sinceArrival, inBurst, dbVars, turns>>

\* a pool.query of the handler rejects: the catch of lines 924-927
HandlerQueryFails(d) ==
  /\ deliveries[d].pc \in {"contact", "insertContact", "conversation",
                           "insertConversation", "store"}
  /\ deliveries' = Respond(d, 500, "error")
  /\ UNCHANGED <<clientVars, ragVars, sinceArrival, inBurst, dbVars, messageBuffers, timers, turns>>

(***************************************************************************)
(* processBufferedMessages, lines 78-230, one action per await.            *)
(***************************************************************************)
NewTurn(buffer) ==
  [ pc |-> "persist",
    fullMessage |-> Join(buffer.messages, <<"\n">>),
    fragments |-> buffer.fragments,
    metadata |-> buffer.metadata,
    botResponse |-> NoBotResponse,
    sent |-> FALSE,
    completions |-> 0,        \* calls of generateBotResponse
    textSends |-> <<>>,       \* texts passed to sendEvolutionMessage
    pdfSends |-> <<>>,        \* urls passed to sendEvolutionPdf
    botMessages |-> 0,        \* INSERTs of a bot row (lines 219-223)
    statusAtFlush |-> "none", \* history: the stored status when the timer fired
    tokensAtFlush |-> 0,      \* history: the stored counter when the timer fired
    ended |-> "running" ]

StoredConversation(id) ==
  IF \E row \in conversations : row.id = id
    THEN CHOOSE row \in conversations : row.id = id
    ELSE NoConversation

\* turn i exists: every processBufferedMessages run that found a buffer gets
\* the next number
IsTurn(i) == i <= Len(turns)

\* the setTimeout callback runs: lines 78-95
Flush ==
  /\ \E t \in timers :
       /\ t.left = 0
       /\ timers' = timers \ {t}
       /\ IF ~messageBuffers.exists THEN UNCHANGED <<messageBuffers, turns>>
          ELSE
            LET stored == StoredConversation(messageBuffers.metadata.conversation.id)
            IN /\ messageBuffers' = NoBuffer
               /\ turns' = Append(turns,
                    [NewTurn(messageBuffers) EXCEPT
                       !.statusAtFlush = stored.status,
                       !.tokensAtFlush = stored.total_tokens])
  /\ UNCHANGED <<clientVars, ragVars, sinceArrival, inBurst, dbVars, deliveries>>

\* after the token counter is known, up to the next await: lines 182-201
AfterResponse(bot) ==
  IF bot.permissionUpdate # "null" THEN "permission"
  ELSE IF bot.handover THEN "status"
  ELSE "send"

\* lines 98-129: getPool, the name UPDATEs, INSERT INTO messages, then the
\* waiting_human check on the buffer's conversation object
PersistInbound(i) ==
  /\ IsTurn(i)
  /\ turns[i].pc = "persist"
  /\ messages' = messages \cup
       {[ conversation_id |-> turns[i].metadata.conversation.id,
          sender |-> "user", content |-> turns[i].fullMessage, turn |-> i ]}
  /\ IF turns[i].metadata.conversation.status = "waiting_human"
       THEN turns' = [turns EXCEPT ![i].pc = "done", ![i].ended = "waiting_human"]
       ELSE turns' = [turns EXCEPT ![i].pc = "config"]
  /\ UNCHANGED <<clientVars, ragVars, sinceArrival, inBurst, evolutionConfig, storeConfig, contacts,
                 conversations, deliveries, messageBuffers, timers>>

\* lines 131-168: SELECT COUNT(*), SELECT evolution_configs, the token limit
LoadEvolutionConfig(i) ==
  /\ IsTurn(i)
  /\ turns[i].pc = "config"
  /\ IF ~evolutionConfig THEN
       turns' = [turns EXCEPT ![i].pc = "done", ![i].ended = "no_evolution_config"]
     ELSE IF turns[i].metadata.conversation.total_tokens >= MAX_TOKENS_PER_CONVERSATION
       THEN turns' = [turns EXCEPT ![i].botResponse = TokenLimitResponse,
                                   ![i].pc = AfterResponse(TokenLimitResponse)]
     ELSE turns' = [turns EXCEPT ![i].pc = "generate"]
  /\ UNCHANGED <<clientVars, ragVars, sinceArrival, inBurst, dbVars, deliveries, messageBuffers, timers>>

\* line 171: await generateBotResponse(storeConfig, contact, fullMessage, ...)
Generate(i, replies, tokenCounts) ==
  /\ IsTurn(i)
  /\ turns[i].pc = "generate"
  /\ \E r \in ClientResults(turns[i].metadata.storeConfig, turns[i].fullMessage,
                             replies, tokenCounts) :
       turns' = [turns EXCEPT ![i].botResponse = r,
                              ![i].completions = @ + 1,
                              ![i].pc = "tokens"]
  /\ UNCHANGED <<clientVars, ragVars, sinceArrival, inBurst, dbVars, deliveries, messageBuffers, timers>>

\* lines 174-178: UPDATE conversations SET total_tokens = currentTokens + tokensUsed
UpdateTokens(i) ==
  /\ IsTurn(i)
  /\ turns[i].pc = "tokens"
  /\ LET t == turns[i]
         total == t.metadata.conversation.total_tokens + t.botResponse.tokensUsed
     IN /\ conversations' =
             { IF row.id = t.metadata.conversation.id
                 THEN [row EXCEPT !.total_tokens = total] ELSE row : row \in conversations }
        /\ turns' = [turns EXCEPT ![i].pc = AfterResponse(t.botResponse)]
  /\ UNCHANGED <<clientVars, ragVars, sinceArrival, inBurst, evolutionConfig, storeConfig, contacts, messages,
                 deliveries, messageBuffers, timers>>

\* lines 183-189: UPDATE contacts SET permission
UpdatePermission(i) ==
  /\ IsTurn(i)
  /\ turns[i].pc = "permission"
  /\ LET t == turns[i]
     IN /\ contacts' =
             { IF row.id = t.metadata.contact.id
                 THEN [row EXCEPT !.permission = t.botResponse.permissionUpdate]
                 ELSE row : row \in contacts }
        /\ turns' = [turns EXCEPT
                       ![i].pc = IF t.botResponse.handover THEN "status" ELSE "send"]
  /\ UNCHANGED <<clientVars, ragVars, sinceArrival, inBurst, evolutionConfig, storeConfig, conversations, messages,
                 deliveries, messageBuffers, timers>>

\* lines 192-197: UPDATE conversations SET status = 'waiting_human'
UpdateStatus(i) ==
  /\ IsTurn(i)
  /\ turns[i].pc = "status"
  /\ conversations' =
       { IF row.id = turns[i].metadata.conversation.id
           THEN [row EXCEPT !.status = "waiting_human"] ELSE row : row \in conversations }
  /\ turns' = [turns EXCEPT ![i].pc = "send"]
  /\ UNCHANGED <<clientVars, ragVars, sinceArrival, inBurst, evolutionConfig, storeConfig, contacts, messages,
                 deliveries, messageBuffers, timers>>

\* `botResponse.sendMenuPdf && storeConfig.menuPdfUrl`
WantsPdf(t) ==
  t.botResponse.sendMenuPdf = "true" /\ t.metadata.storeConfig.menuPdfUrl # <<>>

\* SendText without the `if (sent)` of line 217: the turn goes on to the
\* INSERT of the bot row whatever sendEvolutionMessage returned
SendTextUngated(i, results) ==
  /\ IsTurn(i)
  /\ turns[i].pc = "send"
  /\ \E ok \in results :
       turns' = [turns EXCEPT
         ![i].textSends = Append(@, turns[i].botResponse.text),
         ![i].sent = ok,
         ![i].pc = IF WantsPdf(turns[i]) THEN "pdf" ELSE "persistBot"]
  /\ UNCHANGED <<clientVars, ragVars, sinceArrival, inBurst, dbVars, deliveries, messageBuffers, timers>>

\* line 201: sent = await sendEvolutionMessage(...), which returns false on a
\* non-2xx response or a transport error and never throws
SendText(i, results) ==
  /\ IsTurn(i)
  /\ turns[i].pc = "send"
  /\ \E ok \in results :
       turns' = [turns EXCEPT
         ![i].textSends = Append(@, turns[i].botResponse.text),
         ![i].sent = ok,
         ![i].pc = IF WantsPdf(turns[i]) THEN "pdf"
                   ELSE IF ok THEN "persistBot" ELSE "done",
         ![i].ended = IF ~WantsPdf(turns[i]) /\ ~ok THEN "completed" ELSE @]
  /\ UNCHANGED <<clientVars, ragVars, sinceArrival, inBurst, dbVars, deliveries, messageBuffers, timers>>

\* lines 204-214: await sendEvolutionPdf(...), result ignored
SendPdf(i) ==
  /\ IsTurn(i)
  /\ turns[i].pc = "pdf"
  /\ LET t == turns[i]
         url == ResolvePdfUrl(t.metadata.storeConfig.menuPdfUrl, t.metadata.serverBaseUrl)
     IN turns' = [turns EXCEPT
          ![i].pdfSends = Append(@, url),
          ![i].pc = IF t.sent THEN "persistBot" ELSE "done",
          ![i].ended = IF t.sent THEN @ ELSE "completed"]
  /\ UNCHANGED <<clientVars, ragVars, sinceArrival, inBurst, dbVars, deliveries, messageBuffers, timers>>

\* lines 217-224: INSERT INTO messages (sender 'bot') when sent
PersistBotMessage(i) ==
  /\ IsTurn(i)
  /\ turns[i].pc = "persistBot"
  /\ messages' = messages \cup
       {[ conversation_id |-> turns[i].metadata.conversation.id,
          sender |-> "bot", content |-> turns[i].botResponse.text, turn |-> i ]}
  /\ turns' = [turns EXCEPT ![i].pc = "done", ![i].ended = "completed",
                            ![i].botMessages = @ + 1]
  /\ UNCHANGED <<clientVars, ragVars, sinceArrival, inBurst, evolutionConfig, storeConfig, contacts,
                 conversations, deliveries, messageBuffers, timers>>

\* a pool.query of the turn rejects: the catch of lines 227-229 logs and returns
TurnQueryFails(i) ==
  /\ IsTurn(i)
  /\ turns[i].pc \in {"persist", "config", "tokens", "permission", "status", "persistBot"}
  /\ turns' = [turns EXCEPT ![i].pc = "done", ![i].ended = "error"]
  /\ UNCHANGED <<clientVars, ragVars, sinceArrival, inBurst, dbVars, deliveries, messageBuffers, timers>>

(***************************************************************************)
(* The webhook under bursts of deliveries for one key.                     *)
(***************************************************************************)
BurstStores ==
  {[exists |-> TRUE, fallbackMessage |-> <<"fb">>, menuPdfUrl |-> <<"/uploads/menu.pdf">>]}
BurstConversations == {<<"active", 29000>>}
BurstReplies == {<<"x">>}
FragmentTexts == [d \in Deliveries |-> {<<ToString(d)>>}]

InitBurst ==
  /\ ClientIdle
  /\ RagIdle
  /\ InitWebhook({TRUE}, BurstStores, BurstConversations)

NextBurst ==
  \/ Tick
  \/ Flush
  \/ \E d \in Deliveries :
       \/ Receive(d, {"text"}, FragmentTexts, {<<"https://", "host">>})
       \/ SelectContact(d)
       \/ SelectConversation(d)
       \/ Enqueue(d)
  \/ \E i \in Deliveries :
       \/ PersistInbound(i)
       \/ LoadEvolutionConfig(i)
       \/ Generate(i, BurstReplies, {1000})
       \/ UpdateTokens(i)
       \/ UpdateStatus(i)
       \/ SendText(i, {TRUE})
       \/ PersistBotMessage(i)

SpecBurst == InitBurst /\ [][NextBurst]_vars

(***************************************************************************)
(* C1: N fragments for one key, each arriving less than the debounce       *)
(* window after the one before, are processed by exactly one run of        *)
(* processBufferedMessages, and the text it persists and passes on is the  *)
(* fragments joined with newline in the order the deliveries arrived,      *)
(* whatever the interleaving of the handlers.                              *)
(***************************************************************************)
C1_BurstOver ==
  /\ inBurst
  /\ \A d \in Deliveries : deliveries[d].pc = "done" /\ deliveries[d].reply = "buffered"
  /\ ~messageBuffers.exists
  /\ timers = {}

C1_OneTurnInArrivalOrder ==
  C1_BurstOver =>
    /\ Len(turns) = 1
    /\ turns[1].fullMessage =
         Join([d \in Deliveries |-> deliveries[d].text], <<"\n">>)

(***************************************************************************)
(* C2: when the stored status of the conversation is waiting_human at the  *)
(* moment the timer of a turn fires, that turn makes no call of            *)
(* generateBotResponse, sends no text and sends no document, also when the *)
(* status changed after the buffer of the turn was opened; the inbound     *)
(* message of a turn that ended is persisted.                              *)
(***************************************************************************)
C2_SilentWhenWaitingHuman ==
  \A i \in 1..Len(turns) :
    turns[i].statusAtFlush = "waiting_human" =>
      /\ turns[i].completions = 0
      /\ turns[i].textSends = <<>>
      /\ turns[i].pdfSends = <<>>
      /\ turns[i].pc = "done" =>
           \E m \in messages : m.turn = i /\ m.sender = "user"

(***************************************************************************)
(* C3: a turn whose conversation has a stored total_tokens of at least     *)
(* MAX_TOKENS_PER_CONVERSATION when the turn is processed makes no call of *)
(* generateBotResponse, whatever the interleaving of the earlier turns'    *)
(* UPDATEs of the counter with the arrival of the fragments of this turn.  *)
(***************************************************************************)
C3_NoCompletionOverBudget ==
  \A i \in 1..Len(turns) :
    turns[i].tokensAtFlush >= MAX_TOKENS_PER_CONVERSATION =>
      turns[i].completions = 0

(***************************************************************************)
(* C11: no two runs of processBufferedMessages that found a buffer for the *)
(* key are in progress at the same time, whatever the timing of the        *)
(* deliveries, of the timers and of the completion client.                 *)
(***************************************************************************)
TurnsInProgress == { i \in 1..Len(turns) : turns[i].pc # "done" }

C11_OneTurnAtATime == Cardinality(TurnsInProgress) <= 1

(***************************************************************************)
(* C13: the stored total_tokens of the conversation equals what it held    *)
(* when the server started plus the tokensUsed of every completion whose   *)
(* UPDATE of lines 174-178 has run: no addition is lost or overwritten.    *)
(***************************************************************************)
RECURSIVE TokensAdded(_)
TokensAdded(n) ==
  IF n = 0 THEN 0
  ELSE TokensAdded(n - 1) +
       ( IF turns[n].completions > 0 /\ turns[n].pc # "tokens"
           THEN turns[n].botResponse.tokensUsed ELSE 0 )

C13_CounterIsSumOfCompletions ==
  \A row \in conversations :
    \A c \in BurstConversations :
      row.total_tokens = c[2] + TokensAdded(Len(turns))

(***************************************************************************)
(* C18: whatever the interleaving of arrivals, timers and turns, every     *)
(* fragment the handler put into a buffer is held once, either by the      *)
(* buffer still waiting in the registry or by the combined message of      *)
(* exactly one run of processBufferedMessages: none is lost, none is in    *)
(* two turns, and the combined message is the buffer's texts joined.       *)
(***************************************************************************)
Occurrences(text, token) == Cardinality({ k \in 1..Len(text) : text[k] = token })

HeldByTurns(d) ==
  { i \in 1..Len(turns) : Occurrences(turns[i].fullMessage, deliveries[d].text[1]) > 0 }

HeldByBuffer(d) ==
  IF messageBuffers.exists
    THEN { k \in 1..Len(messageBuffers.messages) :
             messageBuffers.messages[k] = deliveries[d].text }
    ELSE {}

C18_EveryFragmentInOneTurn ==
  \A d \in Deliveries :
    deliveries[d].reply = "buffered" =>
      /\ Cardinality(HeldByTurns(d)) + Cardinality(HeldByBuffer(d)) = 1
      /\ \A i \in HeldByTurns(d) :
           Occurrences(turns[i].fullMessage, deliveries[d].text[1]) = 1

\* two fragments were coalesced into one turn and every accepted fragment
\* has reached a turn
C18_Witness ==
  /\ \A d \in Deliveries : deliveries[d].reply = "buffered"
  /\ ~messageBuffers.exists
  /\ \E i \in 1..Len(turns) : Len(turns[i].fragments) >= 2

(***************************************************************************)
(* C19: at every moment the key has at most one buffer in the registry, a  *)
(* buffer in the registry has exactly one pending timer, the one its       *)
(* timeoutId names (a new fragment cancels the timer before it sets the    *)
(* next), and no timer is pending without a buffer; hence every buffer is  *)
(* handed to processBufferedMessages exactly once: the turns hold          *)
(* different buffers, and each buffer ever opened is in the registry or    *)
(* in exactly one turn.                                                    *)
(***************************************************************************)
\* the deliveries that opened a buffer: the first fragment of a buffer
BufferOpeners ==
  { d \in Deliveries :
      \/ messageBuffers.exists /\ messageBuffers.fragments[1] = d
      \/ \E i \in 1..Len(turns) : turns[i].fragments[1] = d }

C19_OneBufferOneTimer ==
  /\ IF messageBuffers.exists
       THEN /\ Cardinality(timers) = 1
            /\ \A t \in timers : t.id = messageBuffers.timeoutId
       ELSE timers = {}
  /\ \A i, j \in 1..Len(turns) : i # j => turns[i].fragments[1] # turns[j].fragments[1]
  /\ \A i \in 1..Len(turns) :
       messageBuffers.exists => turns[i].fragments[1] # messageBuffers.fragments[1]
  /\ Cardinality(BufferOpeners) = Len(turns) + (IF messageBuffers.exists THEN 1 ELSE 0)

\* a second fragment has replaced the timer of a waiting buffer, and the
\* new timer is running
C19_Witness ==
  /\ messageBuffers.exists
  /\ Len(messageBuffers.fragments) >= 1
  /\ messageBuffers.timeoutId # messageBuffers.fragments[1]
  /\ \E t \in timers : t.left < DebounceTicks

(***************************************************************************)
(* C20: a fragment accepted when the key's buffer has been removed by a    *)
(* flush whose turn is still in progress opens a fresh buffer that holds   *)
(* only this fragment, with the contact, conversation, store configuration *)
(* and base URL of its own request and a timer of the full debounce        *)
(* window; the step leaves the turns as they are, and every fragment       *)
(* accepted earlier is already with a turn when the new window opens.      *)
(***************************************************************************)
AcceptedAfterFlush(d) ==
  /\ deliveries[d].pc = "store"
  /\ deliveries'[d].reply = "buffered"
  /\ ~messageBuffers.exists
  /\ TurnsInProgress # {}

C20_FreshBufferAfterFlush ==
  [][ \A d \in Deliveries :
        AcceptedAfterFlush(d) =>
          /\ messageBuffers'.exists
          /\ messageBuffers'.messages = <<deliveries[d].text>>
          /\ messageBuffers'.metadata =
               [ contact |-> deliveries[d].contact,
                 conversation |-> deliveries[d].conversation,
                 storeConfig |-> storeConfig,
                 serverBaseUrl |-> deliveries[d].serverBaseUrl ]
          /\ timers' = {[id |-> messageBuffers'.timeoutId, left |-> DebounceTicks]}
          /\ turns' = turns
          /\ \A e \in Deliveries \ {d} :
               deliveries[e].reply = "buffered" => HeldByTurns(e) # {} ]_vars

\* the second fragment waits alone in a fresh buffer while the turn of the
\* first is between two of its awaits
C20_Witness ==
  /\ messageBuffers.exists
  /\ messageBuffers.fragments = <<2>>
  /\ \E t \in timers : t.left = DebounceTicks
  /\ Len(turns) = 1
  /\ turns[1].fragments = <<1>>
  /\ turns[1].pc \notin {"persist", "done"}

(***************************************************************************)
(* The first deliveries of a phone number the tenant has never seen: no    *)
(* contacts row and no conversations row exist for the key.                *)
(***************************************************************************)
InitNewPhone ==
  /\ ClientIdle
  /\ RagIdle
  /\ InitWebhook({TRUE}, BurstStores, {<<>>})

NextNewPhone ==
  \/ Tick
  \/ Flush
  \/ \E d \in Deliveries :
       \/ Receive(d, {"text"}, FragmentTexts, {<<"https://", "host">>})
       \/ SelectContact(d)
       \/ InsertContact(d)
       \/ SelectConversation(d)
       \/ InsertConversation(d)
       \/ Enqueue(d)
  \/ \E i \in Deliveries :
       \/ PersistInbound(i)
       \/ LoadEvolutionConfig(i)
       \/ Generate(i, BurstReplies, {1000})
       \/ UpdateTokens(i)
       \/ UpdateStatus(i)
       \/ SendText(i, {TRUE})
       \/ PersistBotMessage(i)

SpecNewPhone == InitNewPhone /\ [][NextNewPhone]_vars

(***************************************************************************)
(* C12: after any interleaving of deliveries, also of two overlapping      *)
(* first deliveries of a new phone number, the key has at most one         *)
(* contacts row and at most one conversations row, and the conversation a  *)
(* handler has just created has status active and total_tokens 0.          *)
(***************************************************************************)
C12_OneContactOneConversation ==
  /\ Cardinality(contacts) <= 1
  /\ Cardinality(conversations) <= 1
  /\ \A d \in Deliveries :
       (deliveries[d].pc = "store" /\ deliveries[d].conversation.id = d) =>
         /\ deliveries[d].conversation.status = "active"
         /\ deliveries[d].conversation.total_tokens = 0

(***************************************************************************)
(* The windows of a new phone number: every handler, every timer, and the  *)
(* turn of the first window, whose UPDATEs change what the handlers of the *)
(* later deliveries read.                                                  *)
(***************************************************************************)
InitWindow ==
  /\ ClientIdle
  /\ RagIdle
  /\ InitWebhook({TRUE}, BurstStores, {<<>>})

NextWindow ==
  \/ Tick
  \/ Flush
  \/ \E d \in Deliveries :
       \/ Receive(d, {"text"}, FragmentTexts, {<<"https://", "host">>})
       \/ SelectContact(d)
       \/ InsertContact(d)
       \/ SelectConversation(d)
       \/ InsertConversation(d)
       \/ Enqueue(d)
  \/ PersistInbound(1)
  \/ LoadEvolutionConfig(1)
  \/ Generate(1, {TAG_ALLOWED \o <<"x">>}, {1000})
  \/ UpdateTokens(1)
  \/ UpdatePermission(1)

SpecWindow == InitWindow /\ [][NextWindow]_vars

(***************************************************************************)
(* C21: a fragment that arrives while the key has a buffer only appends    *)
(* its text and replaces the timer by one of the full window: the buffer's *)
(* metadata (contact, conversation, store configuration, server base URL)  *)
(* stays what the first fragment of the window stored, whatever the later  *)
(* handler read from the database.                                         *)
(***************************************************************************)
C21_LaterFragmentKeepsSnapshot ==
  [][ \A d \in Deliveries :
        ( /\ deliveries[d].pc = "store"
          /\ deliveries'[d].reply = "buffered"
          /\ messageBuffers.exists ) =>
          /\ messageBuffers'.exists
          /\ messageBuffers'.metadata = messageBuffers.metadata
          /\ messageBuffers'.messages =
               Append(messageBuffers.messages, deliveries[d].text)
          /\ timers' = {[id |-> messageBuffers'.timeoutId, left |-> DebounceTicks]} ]_vars

\* the second handler inserted a contact of its own, and its fragment sits
\* in the buffer the first one opened with the first contact
C21_Witness ==
  /\ messageBuffers.exists
  /\ messageBuffers.fragments = <<1, 2>>
  /\ messageBuffers.metadata.contact.id = 1
  /\ \E c \in contacts : c.id = 2

(***************************************************************************)
(* One delivery and its turn, with every reply the completion client can   *)
(* return, every store configuration and failing queries.                  *)
(***************************************************************************)
TurnStores ==
  {NoStoreConfig} \cup
  [exists : {TRUE}, fallbackMessage : FallbackMessages, menuPdfUrl : MenuPdfUrls]
\* the rows the key can have when the delivery arrives: none, or one in any
\* status of the conversations table (status is a free TEXT column that the
\* dashboard reads as active, waiting_human or completed)
TurnConversations ==
  { <<>>, <<"active", 0>>, <<"waiting_human", 0>>, <<"completed", 0>>,
    <<"active", MAX_TOKENS_PER_CONVERSATION>> }
TurnTexts == [d \in Deliveries |-> UserMessages]
Payloads == {"text", "fromMe", "invalid_jid", "no_text"}

InitTurn ==
  /\ ClientIdle
  /\ RagIdle
  /\ InitWebhook(BOOLEAN, TurnStores, TurnConversations)

NextTurn ==
  \/ Tick
  \/ Flush
  \/ Receive(1, Payloads, TurnTexts, {<<>>, <<"https://", "host">>})
  \/ SelectContact(1)
  \/ InsertContact(1)
  \/ SelectConversation(1)
  \/ InsertConversation(1)
  \/ Enqueue(1)
  \/ HandlerQueryFails(1)
  \/ PersistInbound(1)
  \/ LoadEvolutionConfig(1)
  \/ Generate(1, Replies, TokenCounts)
  \/ UpdateTokens(1)
  \/ UpdatePermission(1)
  \/ UpdateStatus(1)
  \/ SendText(1, BOOLEAN)
  \/ SendPdf(1)
  \/ PersistBotMessage(1)
  \/ TurnQueryFails(1)

SpecTurn == InitTurn /\ [][NextTurn]_vars

(***************************************************************************)
(* C5: a flushed turn whose conversation is not waiting_human and whose    *)
(* tenant configuration exists ends with at least one call of              *)
(* sendEvolutionMessage, also when a query of processBufferedMessages      *)
(* fails: a turn that has ended without a text send leaves the customer in *)
(* silence for ever.                                                       *)
(***************************************************************************)
C5_NeverSilent ==
  \A i \in 1..Len(turns) :
    ( /\ turns[i].pc = "done"
      /\ turns[i].statusAtFlush # "waiting_human"
      /\ evolutionConfig
      /\ turns[i].metadata.storeConfig.exists )
    => turns[i].textSends # <<>>

(***************************************************************************)
(* C6: the text passed to sendEvolutionMessage is never empty and never    *)
(* only whitespace, for every reply of the completion client and every     *)
(* fallbackMessage of the store configuration.                             *)
(***************************************************************************)
C6_SentTextNotBlank ==
  \A i \in 1..Len(turns) :
    \A k \in 1..Len(turns[i].textSends) : Trim(turns[i].textSends[k]) # <<>>

(***************************************************************************)
(* C10: every delivery is answered with HTTP 200, buffered or ignored and  *)
(* also when a query of the handler fails; what happens in the turn never  *)
(* changes the response.                                                   *)
(***************************************************************************)
C10_AlwaysAcknowledged ==
  \A d \in Deliveries :
    deliveries[d].pc = "done" => deliveries[d].status = 200

(***************************************************************************)
(* C14: the orchestrator never moves a conversation's status backward:     *)
(* the only status a step writes is waiting_human, never active or         *)
(* completed, and no step changes the status of a conversation that is     *)
(* completed or already waiting_human.                                     *)
(***************************************************************************)
C14_StatusNeverMovesBack ==
  [][ \A old \in conversations : \A new \in conversations' :
        new.id = old.id =>
          \/ new.status = old.status
          \/ old.status = "active" /\ new.status = "waiting_human" ]_vars

(***************************************************************************)
(* C15: a bot row is inserted for a turn only if sendEvolutionMessage      *)
(* returned true in that turn, and it is inserted whenever it did (the     *)
(* turn reaches the INSERT and the INSERT is not rejected); whether the    *)
(* turn called sendEvolutionPdf changes nothing, and a turn inserts at     *)
(* most one bot row, holding the text that was sent.                       *)
(***************************************************************************)
BotRows(i) == { m \in messages : m.sender = "bot" /\ m.turn = i }

C17_PdfUrlAbsolute ==
  \A i \in 1..Len(turns) :
    \A k \in 1..Len(turns[i].pdfSends) : IsAbsoluteUrl(turns[i].pdfSends[k])

(***************************************************************************)
(* C23: when generateBotResponse returned handover true for a turn (from   *)
(* the HUMAN_HANDOVER marker or as the fallback object), the stored status *)
(* of the conversation is waiting_human before sendEvolutionMessage is     *)
(* called and at the end of the turn, also when the send returned false.   *)
(***************************************************************************)
C23_HandoverStored ==
  \A i \in 1..Len(turns) :
    (turns[i].completions > 0 /\ turns[i].botResponse.handover) =>
      /\ Len(turns[i].textSends) > 0 =>
           StoredConversation(turns[i].metadata.conversation.id).status = "waiting_human"
      /\ turns[i].pc = "done" =>
           StoredConversation(turns[i].metadata.conversation.id).status = "waiting_human"

(***************************************************************************)
(* C24: in a turn that takes the token limit branch of lines 160-167 the   *)
(* status of the conversation is set to waiting_human, the canned message  *)
(* is the text sent to the customer, total_tokens and the contact's        *)
(* permission stay as they were and sendEvolutionPdf is not called.        *)
(***************************************************************************)
TookTokenLimit(i) ==
  /\ turns[i].completions = 0
  /\ turns[i].pc \notin {"persist", "config"}
  /\ turns[i].metadata.conversation.total_tokens >= MAX_TOKENS_PER_CONVERSATION
  /\ turns[i].ended \notin {"waiting_human", "no_evolution_config"}
  /\ turns[i].botResponse # NoBotResponse

C24_TokenLimitTurn ==
  \A i \in 1..Len(turns) :
    TookTokenLimit(i) =>
      LET stored == StoredConversation(turns[i].metadata.conversation.id)
      IN /\ stored.total_tokens = turns[i].tokensAtFlush
         /\ \A c \in contacts :
              c.id = turns[i].metadata.contact.id =>
                c.permission = turns[i].metadata.contact.permission
         /\ turns[i].pdfSends = <<>>
         /\ Len(turns[i].textSends) > 0 =>
              /\ turns[i].textSends = <<TokenLimitResponse.text>>
              /\ stored.status = "waiting_human"
         /\ turns[i].pc = "done" =>
              /\ Len(turns[i].textSends) = 1
              /\ stored.status = "waiting_human"

(***************************************************************************)
(* C25: a turn changes the permission of the contact if and only if the    *)
(* result of generateBotResponse carries a permissionUpdate, and then to   *)
(* exactly that value: a turn that ended with the fallback object, in the  *)
(* token limit branch or at the waiting_human check leaves the permission  *)
(* as it was, and a turn whose result carries one has stored it when it    *)
(* ends.                                                                   *)
(***************************************************************************)
StoredPermission(i) ==
  LET rows == { c \in contacts : c.id = turns[i].metadata.contact.id }
  IN IF rows = {} THEN "none" ELSE (CHOOSE c \in rows : TRUE).permission

C25_PermissionFollowsResult ==
  \A i \in 1..Len(turns) :
    LET before == turns[i].metadata.contact.permission
        update == turns[i].botResponse.permissionUpdate
    IN /\ StoredPermission(i) \in {before, update}
       /\ update = "null" => StoredPermission(i) = before
       /\ (turns[i].pc = "done" /\ update # "null") => StoredPermission(i) = update

(***************************************************************************)
(* C27: when the reply has no SEND_MENU_PDF marker but the user's message  *)
(* asks for the menu and the reply text says it is sending the menu as     *)
(* PDF, the result has sendMenuPdf true; and a turn whose result has       *)
(* sendMenuPdf true and whose store configuration has a menuPdfUrl calls   *)
(* sendEvolutionPdf once, and no other turn calls it.                      *)
(***************************************************************************)
AsksForMenu(userMessage) ==
  \/ Includes(ToLowerCase(userMessage), <<"menu">>)
  \/ Includes(ToLowerCase(userMessage), <<"cardapio">>)

SaysSendingPdf(text) == Includes(ToLowerCase(text), <<"cardapio_em_pdf">>)

C27_MenuPdfSent ==
  \A i \in 1..Len(turns) :
    /\ ( /\ turns[i].completions > 0
         /\ AsksForMenu(turns[i].fullMessage)
         /\ SaysSendingPdf(turns[i].botResponse.text) )
         => turns[i].botResponse.sendMenuPdf = "true"
    /\ Len(turns[i].pdfSends) <= 1
    /\ turns[i].pdfSends # <<>> => WantsPdf(turns[i])
    /\ (turns[i].pc = "done" /\ WantsPdf(turns[i])) => Len(turns[i].pdfSends) = 1

(***************************************************************************)
(* The knowledge base routes, the embedding runs and the search.           *)
(***************************************************************************)
InitKnowledge == ClientIdle /\ WebIdle /\ InitRag

SpecRag == InitKnowledge /\ [][NextRag]_vars

(***************************************************************************)
(* C8: at every moment, also during a run of processDocumentEmbeddings,    *)
(* after a failed embedding call and when two runs for one document        *)
(* overlap, the stored chunk_index values of a document are exactly        *)
(* 0..n-1 for some n, without gap and without duplicate.                   *)
(***************************************************************************)
RowsOf(d) == { de \in document_embeddings : de.document_id = d }

C8_OrdinalsContiguous ==
  \A d \in 0..NDocs :
    LET ordinals == { de.chunk_index : de \in RowsOf(d) }
    IN /\ ordinals = 0..(Cardinality(ordinals) - 1)
       /\ Cardinality(RowsOf(d)) = Cardinality(ordinals)

(***************************************************************************)
(* C9: two runs of processDocumentEmbeddings for one document with the     *)
(* same content return the same number of chunks, and once both have       *)
(* returned no chunk_index of the document is stored twice (the rows of    *)
(* the first run were removed before the second wrote its own).            *)
(***************************************************************************)
RunResults ==
  { r \in (1..Len(jobs)) \X (1..(NDocs + 1)) : r[2] <= Len(jobs[r[1]].results) }

C9_SameResultTwice ==
  \A a, b \in RunResults :
    LET first == jobs[a[1]].results[a[2]]
        second == jobs[b[1]].results[b[2]]
    IN (a # b /\ first.documentId = second.documentId
              /\ first.content = second.content)
       => /\ first.chunks = second.chunks
          /\ \A x, y \in RowsOf(first.documentId) :
               x.chunk_index = y.chunk_index => x = y

(***************************************************************************)
(* searchSimilarChunks over the tables a deployment can hold: every tenant *)
(* with its own store configuration, documents 0..NDocs of any of them,    *)
(* active or not, each with the rows of a finished run or with none.       *)
(***************************************************************************)
StoreIdOf(u) == IF u = 1 THEN "default" ELSE "s" \o ToString(u)

ChunkRows(d) ==
  { [document_id |-> d, chunk_index |-> c, run |-> <<0, d>>] :
      c \in 0..(Len(chunkText(Text(MaxContent), ChunkSize, ChunkOverlap)) - 1) }

DeploymentTables ==
  /\ store_configs = { [id |-> StoreIdOf(u), user_id |-> u] : u \in Tenants }
  /\ \E present \in SUBSET (0..NDocs) :
       \E owner \in [present -> Tenants], active \in [present -> BOOLEAN],
          embedded \in SUBSET present :
         /\ knowledge_documents =
              { [id |-> d, store_config_id |-> StoreIdOf(owner[d]),
                 content |-> Text(MaxContent), active |-> active[d]] : d \in present }
         /\ document_embeddings = UNION { ChunkRows(d) : d \in embedded }

InitSearch ==
  /\ ClientIdle
  /\ WebIdle
  /\ DeploymentTables
  /\ requests = 0
  /\ jobs = <<>>
  /\ searchResult = NoSearch
  /\ chunking = NoChunking

NextSearch == \E u \in Tenants, limit \in 1..2 : SearchSimilarChunks(u, limit)

SpecSearch == InitSearch /\ [][NextSearch]_vars

NextRequest(d) ==
  /\ deliveries[d].pc = "done"
  /\ messageBuffers.exists
  /\ turns = <<>>
  /\ deliveries' = [deliveries EXCEPT ![d] = IdleDelivery]
  /\ UNCHANGED <<clientVars, ragVars, sinceArrival, inBurst, dbVars, messageBuffers, timers, turns>>

InitStream ==
  /\ ClientIdle
  /\ RagIdle
  /\ InitWebhook({TRUE}, BurstStores, BurstConversations)

HandlerStep ==
  \E d \in Deliveries :
    \/ Receive(d, {"text"}, FragmentTexts, {<<"https://", "host">>})
    \/ SelectContact(d)
    \/ SelectConversation(d)
    \/ Enqueue(d)

NextStream ==
  \/ Tick
  \/ Flush
  \/ HandlerStep
  \/ \E d \in Deliveries : NextRequest(d)

SpecStream == InitStream /\ [][NextStream]_vars

SpecStreamFair == SpecStream /\ WF_vars(Tick) /\ WF_vars(Flush)

(***************************************************************************)
(* C29: every fragment accepted into a buffer is eventually handed to the  *)
(* orchestrator, assuming only that scheduled timers fire: an open buffer  *)
(* is eventually flushed, whatever the sender posts after it.              *)
(***************************************************************************)
C29_BufferEventuallyFlushed == messageBuffers.exists ~> ~messageBuffers.exists

(***************************************************************************)
(* The knowledge context of generateBotResponse, lines 235-266, in front   *)
(* of the retry loop.  The tenant's storeConfig is the one the webhook     *)
(* handler builds at lines 846-872.                                        *)
(***************************************************************************)
\* `SELECT id, title, content, active FROM knowledge_documents WHERE
\* store_config_id = $1 ORDER BY title`, lines 856-859; a document's title
\* sorts as its id does
RECURSIVE KnowledgeDocs(_)
KnowledgeDocs(docs) ==
  IF docs = {} THEN <<>>
  ELSE LET first == CHOOSE d \in docs : \A e \in docs : d.id <= e.id
       IN <<[id |-> first.id, active |-> first.active]>> \o KnowledgeDocs(docs \ {first})

\* the storeConfig object of lines 861-872 for tenant u
StoreConfigOf(u) ==
  [ fallbackMessage |-> <<"fb">>, menuPdfUrl |-> <<>>, userId |-> u,
    knowledgeBase |->
      KnowledgeDocs({ kd \in knowledge_documents : kd.store_config_id = StoreIdOf(u) }) ]

\* `storeConfig.knowledgeBase.filter(doc => doc.active)`, lines 258-261
ActiveDocuments(knowledgeBase) == SelectSeq(knowledgeBase, LAMBDA doc : doc.active)

\* ClientSearch without the `else { throw new Error('No chunks found') }` of
\* lines 250-253: a search that returns no row leaves the context empty
ClientSearchNoThrowOnEmpty ==
  /\ cpc = "search"
  /\ \E r \in SearchOutcomes(cCfg.userId, 5) :
       /\ searchResult' = r
       /\ IF ~r.threw
            THEN /\ knowledgeContext' = [chunks |-> r.rows, documents |-> <<>>]
                 /\ ragUsed' = (r.rows # {})
            ELSE /\ knowledgeContext' =
                      [chunks |-> {}, documents |-> ActiveDocuments(cCfg.knowledgeBase)]
                 /\ ragUsed' = FALSE
  /\ cpc' = "fetch"
  /\ UNCHANGED <<attempt, response, outcomes, sleeps, cCfg, cUserMsg, cBody, cResult, webVars,
                 store_configs, knowledge_documents, document_embeddings, requests, jobs, chunking>>

\* the try/catch of lines 238-266: `await searchSimilarChunks(userMessage,
\* storeConfig.userId, 5)`; rows give the RAG context, no row or a thrown
\* error gives the active documents of storeConfig.knowledgeBase
ClientSearch ==
  /\ cpc = "search"
  /\ \E r \in SearchOutcomes(cCfg.userId, 5) :
       /\ searchResult' = r
       /\ IF ~r.threw /\ r.rows # {}
            THEN /\ knowledgeContext' = [chunks |-> r.rows, documents |-> <<>>]
                 /\ ragUsed' = TRUE
            ELSE /\ knowledgeContext' =
                      [chunks |-> {}, documents |-> ActiveDocuments(cCfg.knowledgeBase)]
                 /\ ragUsed' = FALSE
  /\ cpc' = "fetch"
  /\ UNCHANGED <<attempt, response, outcomes, sleeps, cCfg, cUserMsg, cBody, cResult, webVars,
                 store_configs, knowledge_documents, document_embeddings, requests, jobs, chunking>>

InitContext ==
  /\ cpc = "search"
  /\ attempt = 1
  /\ response = "none"
  /\ outcomes = <<>>
  /\ sleeps = 0
  /\ DeploymentTables
  /\ \E u \in Tenants : cCfg = StoreConfigOf(u)
  /\ cUserMsg = <<"oi">>
  /\ cBody = NoBody
  /\ cResult = NoResult
  /\ knowledgeContext = NoContext
  /\ ragUsed = FALSE
  /\ WebIdle
  /\ requests = 0
  /\ jobs = <<>>
  /\ searchResult = NoSearch
  /\ chunking = NoChunking

NextContext == ClientSearch \/ ClientFetch \/ ClientSleep

SpecContext == InitContext /\ [][NextContext]_vars

(***************************************************************************)
(* C28: when the embedding call or the index query fails, and when the     *)
(* search returns zero chunks, the knowledge context is the concatenation  *)
(* of every active document of the tenant and of no inactive one; the      *)
(* fallback never raises, so the call goes on to the completion request.   *)
(***************************************************************************)
C28_FallbackContext ==
  /\ cpc # "search" /\ (searchResult.threw \/ searchResult.rows = {}) =>
       /\ ~ragUsed
       /\ knowledgeContext.chunks = {}
       /\ \A kd \in knowledge_documents :
            kd.store_config_id = StoreIdOf(cCfg.userId) =>
              (kd.active <=>
                 \E i \in 1..Len(knowledgeContext.documents) :
                   knowledgeContext.documents[i].id = kd.id)
       /\ \A i \in 1..Len(knowledgeContext.documents) :
            \E kd \in knowledge_documents :
              /\ kd.id = knowledgeContext.documents[i].id
              /\ kd.store_config_id = StoreIdOf(cCfg.userId)
              /\ kd.active
  /\ cpc \notin {"search", "fetch"} => Len(outcomes) >= 1

\* a search that returned no row for a tenant with an active and an inactive
\* document, followed by a completion request
C28_Witness ==
  /\ ~searchResult.threw
  /\ searchResult.userId = cCfg.userId
  /\ searchResult.rows = {}
  /\ Len(knowledgeContext.documents) >= 1
  /\ \E kd \in knowledge_documents :
       kd.store_config_id = StoreIdOf(cCfg.userId) /\ ~kd.active
  /\ Len(outcomes) >= 1

(***************************************************************************)
(* chunkText, rag.js lines 21-48, one step per iteration of its while      *)
(* loop, for the settings CHUNK_SIZE and CHUNK_OVERLAP of lines 6-7, which *)
(* are read from the environment without any check of their relation.      *)
(***************************************************************************)
\* values of CHUNK_SIZE and of CHUNK_OVERLAP
ChunkSizes == 1..ChunkSize
ChunkOverlaps == 0..ChunkSize
ChunkedTexts ==
  { Text(n) : n \in 0..MaxContent } \cup
  { <<" ">>, <<"a", " ", "a", "a", "a">>, <<"a", "a", " ", " ", "a">> }
\* iterations followed by the model; a loop whose start increases by one or
\* more each time makes at most Len(text) of them
MaxIterations == MaxContent + 1

\* String.prototype.slice(start, end): a negative index counts from the end
SliceIndex(text, i) ==
  IF i < 0 THEN (IF Len(text) + i < 0 THEN 0 ELSE Len(text) + i) ELSE Min(i, Len(text))
Slice(text, start, end) == SubSeq(text, SliceIndex(text, start) + 1, SliceIndex(text, end))

\* the call: arguments, the early return of lines 22-24, `let start = 0`
InitChunking ==
  /\ ClientIdle
  /\ WebIdle
  /\ store_configs = {}
  /\ knowledge_documents = {}
  /\ document_embeddings = {}
  /\ requests = 0
  /\ jobs = <<>>
  /\ searchResult = NoSearch
  /\ \E text \in ChunkedTexts, chunkSize \in ChunkSizes, overlap \in ChunkOverlaps :
       chunking =
         [ pc |-> IF Len(Trim(text)) = 0 THEN "done" ELSE "loop",
           text |-> text, chunkSize |-> chunkSize, overlap |-> overlap,
           start |-> 0, chunks |-> <<>>, iterations |-> 0 ]

\* one test of `while (start < text.length)` and one body, lines 28-44
ChunkIteration ==
  /\ chunking.pc = "loop"
  /\ chunking.iterations < MaxIterations
  /\ LET text == chunking.text
         start == chunking.start
         end == Min(start + chunking.chunkSize, Len(text))
         chunk == Trim(Slice(text, start, end))
         pushed == IF Len(chunk) > 0 THEN Append(chunking.chunks, chunk) ELSE chunking.chunks
     IN IF ~(start < Len(text)) THEN
          chunking' = [chunking EXCEPT !.pc = "done"]
        ELSE IF end >= Len(text) THEN
          chunking' = [chunking EXCEPT !.pc = "done", !.chunks = pushed,
                                       !.iterations = @ + 1]
        ELSE
          chunking' = [chunking EXCEPT !.start = start + chunking.chunkSize - chunking.overlap,
                                       !.chunks = pushed, !.iterations = @ + 1]
  /\ UNCHANGED <<clientVars, webVars, store_configs, knowledge_documents, document_embeddings,
                 requests, jobs, searchResult>>

NextChunking == ChunkIteration

SpecChunking == InitChunking /\ [][NextChunking]_vars

(***************************************************************************)
(* C30: chunkText terminates for every text and every configured chunk     *)
(* size and overlap, settings with overlap >= chunk size included: the     *)
(* window start strictly increases on every iteration of its loop.         *)
(***************************************************************************)
C30_StartIncreases ==
  [][ chunking.pc = "loop" /\ chunking'.pc = "loop" =>
        chunking'.start > chunking.start ]_chunking

(***************************************************************************)
(* One call of the completion client.                                      *)
(***************************************************************************)
InitCompletion == InitClient /\ WebIdle /\ RagIdle

SpecClient == InitCompletion /\ [][NextClient]_vars

(***************************************************************************)
(* C4: in every failure mode of the completion client (all MAX_RETRIES     *)
(* attempts ended in a non-2xx response or a transport error, in any mix;  *)
(* a 2xx response whose body is empty or not parseable; a parsed response  *)
(* whose extracted text is empty), the returned object is the fallback:    *)
(* text is the tenant's fallback message or the built-in default,          *)
(* permissionUpdate null, handover true, tokensUsed 0, sendMenuPdf unset.  *)
(***************************************************************************)
C4_Exhausted ==
  /\ Len(outcomes) = MAX_RETRIES
  /\ \A i \in 1..Len(outcomes) : outcomes[i] \in {"bad", "throw"}

C4_BadBody ==
  /\ cBody.kind = "text"
     \/ (cBody.kind = "json" /\ cBody.content = "absent")
     \/ (cBody.kind = "json" /\ cBody.content = "string"
           /\ \A i \in 1..Len(cBody.raw) : IsSpace(cBody.raw[i]))

C4_FallbackOnFailure ==
  (cpc = "done" /\ (C4_Exhausted \/ C4_BadBody)) =>
    /\ cResult.text = (IF cCfg.fallbackMessage = <<>>
                         THEN DefaultFallbackText ELSE cCfg.fallbackMessage)
    /\ cResult.permissionUpdate = "null"
    /\ cResult.handover = TRUE
    /\ cResult.tokensUsed = 0
    /\ cResult.sendMenuPdf = "undefined"

C4_Witness ==
  /\ cpc = "done"
  /\ outcomes = <<"bad", "throw", "bad">>
  /\ cCfg.fallbackMessage = <<"fb">>
  /\ cResult.text = <<"fb">>

(***************************************************************************)
(* C16: for every successful non-empty reply, each marker the reply holds  *)
(* sets its field (ALLOWED -> permissionUpdate allowed, DENIED ->          *)
(* permissionUpdate denied, HUMAN_HANDOVER -> handover true, SEND_MENU_PDF *)
(* -> sendMenuPdf true), a field whose marker is absent keeps its default, *)
(* and the text returned holds none of the four marker strings.            *)
(***************************************************************************)
C16_Success ==
  /\ cpc = "done"
  /\ cBody.kind = "json"
  /\ cBody.content = "string"
  /\ Trim(cBody.raw) # <<>>

C16_MarkersBecomeFields ==
  C16_Success =>
    /\ Includes(cBody.raw, TAG_ALLOWED) => cResult.permissionUpdate = "allowed"
    /\ Includes(cBody.raw, TAG_DENIED) => cResult.permissionUpdate = "denied"
    /\ Includes(cBody.raw, TAG_HANDOVER) = cResult.handover
    /\ cResult.sendMenuPdf =
         (IF Includes(cBody.raw, TAG_SEND_MENU_PDF) THEN "true" ELSE "false")
    /\ (~Includes(cBody.raw, TAG_ALLOWED) /\ ~Includes(cBody.raw, TAG_DENIED))
         => cResult.permissionUpdate = "null"
    /\ \A tag \in {TAG_ALLOWED, TAG_DENIED, TAG_HANDOVER, TAG_SEND_MENU_PDF} :
         ~Includes(cResult.text, tag)

(***************************************************************************)
(* C22: a call of generateBotResponse issues at least one and at most      *)
(* MAX_RETRIES requests: the first 2xx response ends the loop, a further   *)
(* request follows only a non-2xx response or a rejected fetch, one sleep  *)
(* of RETRY_DELAY_MS lies between two consecutive attempts and none        *)
(* follows the last attempt.                                               *)
(***************************************************************************)
C22_RetryLoop ==
  /\ Len(outcomes) <= MAX_RETRIES
  /\ sleeps <= MAX_RETRIES - 1
  /\ \A k \in 1..Len(outcomes) : k < Len(outcomes) => outcomes[k] # "ok"
  /\ cpc = "fetch" => sleeps = Len(outcomes)
  /\ cpc \in {"sleep", "body", "done"} =>
       /\ Len(outcomes) >= 1
       /\ sleeps = Len(outcomes) - 1
  /\ (cpc \in {"body", "done"} /\ Len(outcomes) < MAX_RETRIES) =>
       outcomes[Len(outcomes)] = "ok"

\* two failed attempts, each followed by a sleep, then a 2xx response
C22_Witness ==
  /\ cpc = "done"
  /\ outcomes = <<"bad", "throw", "ok">>
  /\ sleeps = 2

(***************************************************************************)
(* C26: the tag extraction is independent of the order of the markers and  *)
(* of their repetitions: two replies that hold the same set of markers     *)
(* give the same permissionUpdate, handover and sendMenuPdf, and a reply   *)
(* with both permission markers gives permissionUpdate denied whichever    *)
(* comes first.                                                            *)
(***************************************************************************)
MarkersOf(text) ==
  { tag \in {TAG_ALLOWED, TAG_DENIED, TAG_HANDOVER, TAG_SEND_MENU_PDF} :
      Includes(text, tag) }

TagFields(text) ==
  LET e == ExtractTags(text)
  IN <<e.permissionUpdate, e.handover, e.sendMenuPdf>>

C26_SameMarkersSameFields ==
  C16_Success =>
    /\ \A other \in Replies :
         MarkersOf(other) = MarkersOf(cBody.raw) =>
           /\ TagFields(other) = TagFields(cBody.raw)
           /\ cResult.permissionUpdate = ExtractTags(other).permissionUpdate
           /\ cResult.handover = ExtractTags(other).handover
    /\ {TAG_ALLOWED, TAG_DENIED} \subseteq MarkersOf(cBody.raw) =>
         cResult.permissionUpdate = "denied"

====
